---------------------------- MODULE Spec2Model ----------------------------
(***************************************************************************)
(* Model of src/emu.py: an in-memory virtual file system (VNode tree), the *)
(* path resolver resolve_path, and the command dispatcher Emulator.run_cmd *)
(* with its commands ls, cd, whoami, rev, head, chown and exit.            *)
(*                                                                         *)
(* Text.  A Python str is modelled as a sequence of units.  A unit is a    *)
(* one-character string ("a", "/", ".", "\n") for every character that     *)
(* comes from user input or file content, and a whole literal ("cd: ",     *)
(* "path not found: ") for the fixed fragments of the code's f-strings.    *)
(* Concatenation is \o.  A path segment and a node name are texts too:     *)
(* ".." is <<".", ".">>.                                                   *)
(***************************************************************************)
EXTENDS Integers, Sequences, FiniteSets, TLC

VARIABLES
    vfs,        \* Emulator.root: node id -> VNode fields (id 1 is the root)
    cwd_parts,  \* Emulator.cwd_parts: sequence of segments from the root
    log_path,   \* Emulator.log_path: TRUE when a log file is configured
    log,        \* the <event> elements this session appended to the log file
    pc,         \* position of the session: "ready" (waiting for a line), "exec"
                \* (inside run_cmd, the event logged), "returned" (run_cmd has
                \* returned out), "exited" (process ended)
    command,    \* run_cmd's parameter command
    args,       \* run_cmd's parameter args
    out,        \* value returned by the last completed run_cmd
    source,     \* who feeds the command stream: "script" or "repl"
    rp          \* record of one resolve_path evaluation (SpecResolve only)

vars == <<vfs, cwd_parts, log_path, log, pc, command, args, out, source, rp>>

-----------------------------------------------------------------------------
(* Bounds of the model *)

\* longest path expression, in segments, that the session's commands receive
MaxSegs == 2
\* longest path expression, in segments, given to resolve_path in SpecResolve
MaxResolveSegs == 2
\* longest working directory, in segments, given to resolve_path in SpecResolve
MaxCwd == 1
\* most events the audit log is followed for in SpecAudit
MaxLog == 2

-----------------------------------------------------------------------------
(* Python helpers on text *)

\* None, for a node (node ids start at 1) and for an error message
NoNode == 0
NoErr == <<>>

\* sep.join(parts)
RECURSIVE Join(_, _)
Join(sep, parts) ==
    IF parts = <<>> THEN <<>>
    ELSE IF Len(parts) = 1 THEN parts[1]
    ELSE parts[1] \o sep \o Join(sep, Tail(parts))

\* text.split(sep) for a one-character sep: the pieces between separators,
\* empty pieces included
RECURSIVE SplitOn(_, _, _)
SplitOn(text, sep, piece) ==
    IF text = <<>> THEN <<piece>>
    ELSE IF Head(text) = sep THEN <<piece>> \o SplitOn(Tail(text), sep, <<>>)
    ELSE SplitOn(Tail(text), sep, Append(piece, Head(text)))

\* text[::-1]
RECURSIVE Reverse(_)
Reverse(text) ==
    IF text = <<>> THEN <<>> ELSE Append(Reverse(Tail(text)), Head(text))

\* str(n) for n >= 0
DigitChar(d) == <<"0", "1", "2", "3", "4", "5", "6", "7", "8", "9">>[d + 1]
RECURSIVE ToDec(_)
ToDec(n) == IF n < 10 THEN <<DigitChar(n)>> ELSE Append(ToDec(n \div 10), DigitChar(n % 10))

-----------------------------------------------------------------------------
(* Data model: VNode *)

VNode(name, ntype, owner, content, children) ==
    [name |-> name, type |-> ntype, owner |-> owner, mode |-> <<"r", "w">>,
     content |-> content, children |-> children]

\* p in node.children  (children: the ids of the child nodes, in insertion order)
HasChild(root, n, p) == \E i \in 1..Len(root[n].children) : root[root[n].children[i]].name = p

\* node.children[p]
Child(root, n, p) ==
    root[n].children[CHOOSE i \in 1..Len(root[n].children) : root[root[n].children[i]].name = p]

-----------------------------------------------------------------------------
(* Utilities: path resolution *)

\* split_path: no text of the model holds whitespace (the callers split their
\* lines on whitespace), so path.strip() == "" is path == ""
SplitPath(path) ==
    IF path = <<>> THEN <<>>
    ELSE SelectSeq(SplitOn(path, "/", <<>>), LAMBDA p : p # <<>>)

StartsWithSlash(path) == path # <<>> /\ path[1] = "/"

\* the stack loop of resolve_path lines 137-144 and of cmd_cd lines 265-273
RECURSIVE Normalize(_, _)
Normalize(combined, stack) ==
    IF combined = <<>> THEN stack
    ELSE LET q == Head(combined) IN
         IF q = <<".">> THEN Normalize(Tail(combined), stack)
         ELSE IF q = <<".", ".">>
              THEN Normalize(Tail(combined),
                             IF stack # <<>> THEN SubSeq(stack, 1, Len(stack) - 1) ELSE stack)
              ELSE Normalize(Tail(combined), Append(stack, q))

\* resolve_path lines 100-107: walk the current directory
RECURSIVE WalkCwd(_, _, _)
WalkCwd(root, cur, parts) ==
    IF parts = <<>> THEN [node |-> cur, err |-> NoErr]
    ELSE IF ~HasChild(root, cur, Head(parts))
         THEN [node |-> NoNode,
               err |-> <<"current directory broken: ">> \o Head(parts) \o <<" missing">>]
         ELSE WalkCwd(root, Child(root, cur, Head(parts)), Tail(parts))

\* resolve_path lines 147-151: traversal of the normalized stack
RECURSIVE WalkStack(_, _, _, _)
WalkStack(root, cur, parts, rest) ==
    IF rest = <<>> THEN [node |-> cur, err |-> NoErr]
    ELSE IF ~HasChild(root, cur, Head(rest))
         THEN [node |-> NoNode,
               err |-> <<"path not found: ", "/">> \o Join(<<"/">>, parts)]
         ELSE WalkStack(root, Child(root, cur, Head(rest)), parts, Tail(rest))

\* resolve_path lines 114-155: the main loop over parts.  A ".." of a
\* relative path recomputes the whole stack and returns (lines 135-151); a
\* ".." of an absolute path leaves the if-block without any effect and is
\* then looked up as a child name like any other segment (lines 152-154).
RECURSIVE WalkParts(_, _, _, _, _)
WalkParts(root, cwd, path, cur, rest) ==
    IF rest = <<>> THEN [node |-> cur, err |-> NoErr]
    ELSE LET p == Head(rest) IN
         IF p = <<".">> THEN WalkParts(root, cwd, path, cur, Tail(rest))
         ELSE IF p = <<".", ".">> /\ ~StartsWithSlash(path)
              THEN LET stack2 == Normalize(cwd \o SplitPath(path), <<>>)
                   IN  WalkStack(root, 1, stack2, stack2)
              ELSE IF ~HasChild(root, cur, p)
                   THEN [node |-> NoNode, err |-> <<"path not found: ">> \o path]
                   ELSE WalkParts(root, cwd, path, Child(root, cur, p), Tail(rest))

\* Faulty variant of resolve_path: the leading separator is not looked at and
\* every expression is taken relative to the working directory.
ResolvePathFromCwd(root, cwd, path) ==
    IF path = <<>> \/ path = <<".">> THEN WalkCwd(root, 1, cwd)
    ELSE WalkParts(root, cwd, path, 1, cwd \o SplitPath(path))

\* resolve_path(root, cwd_parts, path) -> (node, error_message)
ResolvePath(root, cwd, path) ==
    IF path = <<>> \/ path = <<".">> THEN WalkCwd(root, 1, cwd)
    ELSE LET parts == IF StartsWithSlash(path) THEN SplitPath(path)
                      ELSE cwd \o SplitPath(path)
         IN  WalkParts(root, cwd, path, 1, parts)


-----------------------------------------------------------------------------
(* The trees the sessions run on (build_vfs_from_dict's result) *)

RootOwner == <<"r", "o", "o", "t">>

\* 12 lines "0" .. "b", each ended by a newline
LongText ==
    <<"0", "\n", "1", "\n", "2", "\n", "3", "\n", "4", "\n", "5", "\n",
      "6", "\n", "7", "\n", "8", "\n", "9", "\n", "a", "\n", "b", "\n">>

\* 3 lines, the last one without a newline
ShortText == <<"x", "\n", "y", "\n", "z">>

\*   /            dir, children inserted in the order b, a
\*   /b           file, 12 lines
\*   /a           dir, children inserted in the order c, b
\*   /a/c         file, 3 lines, owner "al"
\*   /a/b         dir, empty
MainTree ==
    <<VNode(<<"/">>, "dir", RootOwner, <<>>, <<5, 2>>),
      VNode(<<"a">>, "dir", RootOwner, <<>>, <<4, 3>>),
      VNode(<<"b">>, "dir", RootOwner, <<>>, <<>>),
      VNode(<<"c">>, "file", <<"a", "l">>, ShortText, <<>>),
      VNode(<<"b">>, "file", RootOwner, LongText, <<>>)>>

\* the tree main() falls back to when no VFS document is given
EmptyTree == <<VNode(<<"/">>, "dir", RootOwner, <<>>, <<>>)>>

Trees == {MainTree, EmptyTree}

-----------------------------------------------------------------------------
(* Logging *)

\* the <event> element append_log_event writes (the time attribute is left out)
LogEvent(user, cmd, a) == [user |-> user, command |-> cmd, args |-> Join(<<" ">>, a)]

\* Faulty variant of append_log_event: the event element is added twice.
AppendLogEventTwice(events, written, user, cmd, a) ==
    IF written THEN events \o <<LogEvent(user, cmd, a), LogEvent(user, cmd, a)>> ELSE events

\* append_log_event: the file's events after the call.  written is FALSE when
\* parsing or writing the file raises: the except branch reports it on stderr
\* and the file keeps its content.
AppendLogEvent(events, written, user, cmd, a) ==
    IF written THEN Append(events, LogEvent(user, cmd, a)) ELSE events

-----------------------------------------------------------------------------
(* Commands: what each returns, and the state it leaves *)

\* Emulator.user
User == <<"m", "e">>

Min(a, b) == IF a < b THEN a ELSE b
Max(a, b) == IF a > b THEN a ELSE b

\* seq[:n]
SliceTo(seq, n) ==
    IF n >= 0 THEN SubSeq(seq, 1, Min(n, Len(seq)))
    ELSE SubSeq(seq, 1, Max(0, Len(seq) + n))

\* text.splitlines(), "\n" being the only line break of the model's texts
SplitLines(text) ==
    LET pieces == SplitOn(text, "\n", <<>>)
    IN  IF pieces[Len(pieces)] = <<>> THEN SubSeq(pieces, 1, Len(pieces) - 1) ELSE pieces

\* int(text): an optional sign and decimal digits; ok is FALSE where int raises
Digits == {"0", "1", "2", "3", "4", "5", "6", "7", "8", "9"}
DigitVal(c) == CHOOSE d \in 0..9 : DigitChar(d) = c
RECURSIVE DecVal(_, _)
DecVal(text, acc) ==
    IF text = <<>> THEN acc ELSE DecVal(Tail(text), 10 * acc + DigitVal(Head(text)))
ParseInt(text) ==
    LET signed == text # <<>> /\ text[1] \in {"-", "+"}
        body == IF signed THEN Tail(text) ELSE text
    IN  IF body = <<>> \/ \E i \in 1..Len(body) : body[i] \notin Digits
        THEN [ok |-> FALSE, val |-> 0]
        ELSE [ok |-> TRUE,
              val |-> IF signed /\ text[1] = "-" THEN 0 - DecVal(body, 0) ELSE DecVal(body, 0)]

\* the order of characters (code points) and of texts that sorted() uses
Alphabet == <<"\n", " ", "-", ".", "/", "0", "1", "2", "3", "4", "5", "6", "7", "8", "9",
              "a", "b", "c", "d", "e", "f", "h", "l", "m", "o", "r", "t", "u", "w",
              "x", "y", "z">>
Ord(c) == CHOOSE i \in 1..Len(Alphabet) : Alphabet[i] = c
RECURSIVE TextLess(_, _)
TextLess(s, t) ==
    IF t = <<>> THEN FALSE
    ELSE IF s = <<>> THEN TRUE
    ELSE IF Head(s) = Head(t) THEN TextLess(Tail(s), Tail(t))
    ELSE Ord(Head(s)) < Ord(Head(t))

\* sorted(names)
RECURSIVE Sorted(_)
Sorted(names) ==
    IF names = <<>> THEN <<>>
    ELSE LET i == CHOOSE i \in 1..Len(names) :
                     \A j \in 1..Len(names) : j = i \/ ~TextLess(names[j], names[i])
         IN  <<names[i]>> \o Sorted(SubSeq(names, 1, i - 1) \o SubSeq(names, i + 1, Len(names)))

\* Faulty variant of list_dir: the keys are returned in insertion order.
ListDirUnsorted(root, n) == [i \in 1..Len(root[n].children) |-> root[root[n].children[i]].name]

\* list_dir(node) for a directory: the sorted keys of node.children
ListDir(root, n) == Sorted([i \in 1..Len(root[n].children) |-> root[root[n].children[i]].name])

\* one line of cmd_ls (line 245)
LsLine(root, child) ==
    root[child].name \o <<"\t", root[child].type, "\t", "owner:">> \o root[child].owner
        \o <<"\t", "size:">>
        \o (IF root[child].type = "file" THEN ToDec(Len(root[child].content)) ELSE <<"-">>)

\* cmd_ls's return value
LsOutput(root, cwd, a) ==
    LET path == IF a # <<>> THEN a[1] ELSE <<>>
        r == ResolvePath(root, cwd, path)
    IN  IF r.node = NoNode THEN <<"ls: ">> \o r.err
        ELSE IF root[r.node].type = "file" THEN root[r.node].name
        ELSE LET names == ListDir(root, r.node)
             IN  Join(<<"\n">>, [i \in 1..Len(names) |-> LsLine(root, Child(root, r.node, names[i]))])

\* Faulty variant of cmd_cd: the working directory is reset to the root before
\* the path is checked, so a failing cd leaves the session at the root.
CdResultRootOnError(root, cwd, a) ==
    IF a = <<>> THEN [out |-> <<>>, cwd |-> <<>>]
    ELSE LET path == a[1]
             r == ResolvePath(root, cwd, path)
         IN  IF r.node = NoNode THEN [out |-> <<"cd: ">> \o r.err, cwd |-> <<>>]
             ELSE IF root[r.node].type # "dir"
                  THEN [out |-> <<"cd: not a directory: ">> \o path, cwd |-> <<>>]
                  ELSE IF StartsWithSlash(path)
                       THEN [out |-> <<>>, cwd |-> SplitPath(path)]
                       ELSE [out |-> <<>>, cwd |-> Normalize(cwd \o SplitPath(path), <<>>)]

\* cmd_cd: the returned text and the new cwd_parts
CdResult(root, cwd, a) ==
    IF a = <<>> THEN [out |-> <<>>, cwd |-> <<>>]
    ELSE LET path == a[1]
             r == ResolvePath(root, cwd, path)
         IN  IF r.node = NoNode THEN [out |-> <<"cd: ">> \o r.err, cwd |-> cwd]
             ELSE IF root[r.node].type # "dir"
                  THEN [out |-> <<"cd: not a directory: ">> \o path, cwd |-> cwd]
                  ELSE IF StartsWithSlash(path)
                       THEN [out |-> <<>>, cwd |-> SplitPath(path)]
                       ELSE [out |-> <<>>, cwd |-> Normalize(cwd \o SplitPath(path), <<>>)]

\* Faulty variant of cmd_rev: an argument that does not resolve is reversed
\* alone, the other arguments are dropped.
RevOutputFirstArg(root, cwd, a) ==
    IF a = <<>> THEN <<>>
    ELSE LET target == a[1]
             r == ResolvePath(root, cwd, target)
         IN  IF r.node = NoNode THEN Reverse(target)
             ELSE IF root[r.node].type = "dir"
                  THEN <<"rev: ">> \o target \o <<" is a directory">>
                  ELSE Reverse(root[r.node].content)

\* cmd_rev's return value (decode(errors='replace') never raises)
RevOutput(root, cwd, a) ==
    IF a = <<>> THEN <<>>
    ELSE LET target == a[1]
             r == ResolvePath(root, cwd, target)
         IN  IF r.node = NoNode THEN Reverse(Join(<<" ">>, a))
             ELSE IF root[r.node].type = "dir"
                  THEN <<"rev: ">> \o target \o <<" is a directory">>
                  ELSE Reverse(root[r.node].content)

\* cmd_head lines 309-316, n and idx being settled
HeadFile(root, cwd, a, n, idx) ==
    LET filename == a[idx + 1]
        r == ResolvePath(root, cwd, filename)
    IN  IF r.node = NoNode THEN <<"head: ">> \o r.err
        ELSE IF root[r.node].type # "file"
             THEN <<"head: ">> \o filename \o <<": not a file">>
             ELSE Join(<<"\n">>, SliceTo(SplitLines(root[r.node].content), n))

\* the default line count of cmd_head
HeadDefault == 10

\* cmd_head's return value
HeadOutput(root, cwd, a) ==
    IF a = <<>> THEN <<"head: missing file operand">>
    ELSE IF a[1] = <<"-", "n">>
         THEN IF Len(a) < 3 THEN <<"head: usage: head [-n N] filename">>
              ELSE IF ~ParseInt(a[2]).ok THEN <<"head: invalid number">>
              ELSE HeadFile(root, cwd, a, ParseInt(a[2]).val, 2)
         ELSE HeadFile(root, cwd, a, HeadDefault, 0)

\* Faulty variant of cmd_chown: the owner is set on the node and on its
\* children too.
ChownResultWithChildren(root, cwd, a) ==
    IF Len(a) < 2 THEN [out |-> <<"chown: usage: chown owner path">>, root |-> root]
    ELSE LET owner == a[1]
             path == a[2]
             r == ResolvePath(root, cwd, path)
         IN  IF r.node = NoNode THEN [out |-> <<"chown: ">> \o r.err, root |-> root]
             ELSE [out |-> <<>>,
                   root |-> [m \in DOMAIN root |->
                               IF m = r.node
                                  \/ \E i \in 1..Len(root[r.node].children) :
                                        root[r.node].children[i] = m
                               THEN [root[m] EXCEPT !.owner = owner]
                               ELSE root[m]]]

\* Faulty variant of cmd_chown: the node's mode is reset along with its owner.
ChownResultResetsMode(root, cwd, a) ==
    IF Len(a) < 2 THEN [out |-> <<"chown: usage: chown owner path">>, root |-> root]
    ELSE LET owner == a[1]
             path == a[2]
             r == ResolvePath(root, cwd, path)
         IN  IF r.node = NoNode THEN [out |-> <<"chown: ">> \o r.err, root |-> root]
             ELSE [out |-> <<>>,
                   root |-> [root EXCEPT ![r.node].owner = owner, ![r.node].mode = <<"r">>]]

\* Faulty variant of cmd_chown: when the path does not resolve, the owner is
\* set on the root before the error is returned.
ChownResultOwnsRootOnError(root, cwd, a) ==
    IF Len(a) < 2 THEN [out |-> <<"chown: usage: chown owner path">>, root |-> root]
    ELSE LET owner == a[1]
             path == a[2]
             r == ResolvePath(root, cwd, path)
         IN  IF r.node = NoNode
             THEN [out |-> <<"chown: ">> \o r.err, root |-> [root EXCEPT ![1].owner = owner]]
             ELSE [out |-> <<>>, root |-> [root EXCEPT ![r.node].owner = owner]]

\* cmd_chown: the returned text and the tree it leaves
ChownResult(root, cwd, a) ==
    IF Len(a) < 2 THEN [out |-> <<"chown: usage: chown owner path">>, root |-> root]
    ELSE LET owner == a[1]
             path == a[2]
             r == ResolvePath(root, cwd, path)
         IN  IF r.node = NoNode THEN [out |-> <<"chown: ">> \o r.err, root |-> root]
             ELSE [out |-> <<>>, root |-> [root EXCEPT ![r.node].owner = owner]]


-----------------------------------------------------------------------------
(* Inputs *)

\* the segments path expressions are made of: a, b and c name nodes of
\* MainTree in some directories and nothing in others
Segs == {<<".">>, <<".", ".">>, <<"a">>, <<"b">>, <<"c">>}

SegSeqs(n) == UNION {[1..k -> Segs] : k \in 0..n}

\* the path expressions of at most n segments, absolute and relative, and two
\* with a doubled and a trailing separator; "" is no argument of a command
Paths(n) ==
    ({(IF abs THEN <<"/">> ELSE <<>>) \o Join(<<"/">>, s) : abs \in BOOLEAN, s \in SegSeqs(n)}
        \cup {<<"/", "/", "a">>, <<"a", "/">>}) \ {<<>>}

SessionPaths == Paths(MaxSegs)
ShortPaths == Paths(MaxSegs - 1)

NewOwner == <<"u">>

\* the argument lists the session gives to each command
CountArgs == {<<"-", "1">>, <<"-", "4">>, <<"0">>, <<"2">>, <<"3">>, <<"1", "1">>,
              <<"1", "3">>, <<"+", "2">>, <<"x">>, <<"-">>}
FilePaths == {<<"b">>, <<"/", "b">>, <<"c">>, <<"/", "a", "/", "c">>, <<"a">>, <<"/", "c">>}
Words == {<<"h", "e", "l", "l", "o">>, <<"a">>}

ArgLists(cmd) ==
    CASE cmd = "cd" ->
            {<<>>} \cup {<<p>> : p \in SessionPaths}
                   \cup {<<p, q>> : p \in ShortPaths, q \in {<<"a">>}}
      [] cmd = "ls" -> {<<>>} \cup {<<p>> : p \in ShortPaths}
      [] cmd = "chown" ->
            {<<>>, <<NewOwner>>} \cup {<<NewOwner, p>> : p \in SessionPaths}
      [] cmd = "rev" ->
            {<<>>} \cup {<<p>> : p \in FilePaths} \cup {<<w, v>> : w, v \in Words}
      [] cmd = "head" ->
            {<<>>, <<<<"-", "n">>>>, <<<<"-", "n">>, <<"2">>>>}
                \cup {<<p>> : p \in FilePaths}
                \cup {<<<<"-", "n">>, k, p>> : k \in CountArgs, p \in FilePaths}
      [] OTHER -> {<<>>, <<<<"a">>>>}

Known == {"exit", "ls", "cd", "whoami", "rev", "head", "chown"}
Commands == Known \cup {"foo"}

-----------------------------------------------------------------------------
(* The session: Emulator.repl, run_startup_script and run_cmd *)

NoRp == [done |-> FALSE]

\* Emulator.__init__ on the tree main() built; no log file is configured
Init ==
    /\ vfs \in Trees
    /\ cwd_parts = <<>>
    /\ log_path = FALSE
    /\ log = <<>>
    /\ pc = "ready"
    /\ command = ""
    /\ args = <<>>
    /\ out = <<>>
    /\ source \in {"script", "repl"}
    /\ rp = NoRp

\* a line of the stream is split into cmd and args and run_cmd is entered:
\* its first statement logs the event (echo_and_log)
Dispatch(cmd, a) ==
    /\ pc = "ready"
    /\ command' = cmd
    /\ args' = a
    /\ \E written \in BOOLEAN :
          log' = IF log_path THEN AppendLogEvent(log, written, User, cmd, a) ELSE log
    /\ out' = <<>>
    /\ pc' = "exec"
    /\ UNCHANGED <<vfs, cwd_parts, log_path, source, rp>>

\* Faulty variant of run_cmd's exit branch: the exit is caught like an error of
\* the command, a text is returned and the session goes on.
CmdExitCaught ==
    /\ pc = "exec" /\ command = "exit"
    /\ out' = <<"Error executing ", "exit", ": ", "0">>
    /\ pc' = "returned"
    /\ UNCHANGED <<vfs, cwd_parts, log_path, log, command, args, source, rp>>

\* sys.exit(0): SystemExit is no Exception, nothing catches it
CmdExit ==
    /\ pc = "exec" /\ command = "exit"
    /\ pc' = "exited"
    /\ UNCHANGED <<vfs, cwd_parts, log_path, log, command, args, out, source, rp>>

Return(text) ==
    /\ out' = text
    /\ pc' = "returned"
    /\ UNCHANGED <<log_path, log, command, args, source, rp>>

CmdLs ==
    /\ pc = "exec" /\ command = "ls"
    /\ Return(LsOutput(vfs, cwd_parts, args))
    /\ UNCHANGED <<vfs, cwd_parts>>

CmdCd ==
    /\ pc = "exec" /\ command = "cd"
    /\ cwd_parts' = CdResult(vfs, cwd_parts, args).cwd
    /\ Return(CdResult(vfs, cwd_parts, args).out)
    /\ UNCHANGED vfs

CmdWhoami ==
    /\ pc = "exec" /\ command = "whoami"
    /\ Return(User)
    /\ UNCHANGED <<vfs, cwd_parts>>

CmdRev ==
    /\ pc = "exec" /\ command = "rev"
    /\ Return(RevOutput(vfs, cwd_parts, args))
    /\ UNCHANGED <<vfs, cwd_parts>>

CmdHead ==
    /\ pc = "exec" /\ command = "head"
    /\ Return(HeadOutput(vfs, cwd_parts, args))
    /\ UNCHANGED <<vfs, cwd_parts>>

CmdChown ==
    /\ pc = "exec" /\ command = "chown"
    /\ vfs' = ChownResult(vfs, cwd_parts, args).root
    /\ Return(ChownResult(vfs, cwd_parts, args).out)
    /\ UNCHANGED cwd_parts

\* Faulty variant of run_cmd's else branch: the unknown command is raised as
\* an error that nothing catches, and the process ends.
CmdUnknownRaises ==
    /\ pc = "exec" /\ command \notin Known
    /\ pc' = "exited"
    /\ UNCHANGED <<vfs, cwd_parts, log_path, log, command, args, out, source, rp>>

CmdUnknown ==
    /\ pc = "exec" /\ command \notin Known
    /\ Return(<<"Unknown command: ", command>>)
    /\ UNCHANGED <<vfs, cwd_parts>>

\* the caller prints out and turns to the next line; run_cmd's locals are gone
PrintOut ==
    /\ pc = "returned"
    /\ pc' = "ready"
    /\ command' = ""
    /\ args' = <<>>
    /\ out' = <<>>
    /\ UNCHANGED <<vfs, cwd_parts, log_path, log, source, rp>>

\* the start script is read to its end; repl() goes on with the prompt loop
EndScript ==
    /\ pc = "ready" /\ source = "script"
    /\ source' = "repl"
    /\ UNCHANGED <<vfs, cwd_parts, log_path, log, pc, command, args, out, rp>>

\* EOFError on the interactive stream ends the loop and the process
EndInput ==
    /\ pc = "ready" /\ source = "repl"
    /\ pc' = "exited"
    /\ UNCHANGED <<vfs, cwd_parts, log_path, log, command, args, out, source, rp>>

RunCmd ==
    \/ CmdExit
    \/ CmdLs
    \/ CmdCd
    \/ CmdWhoami
    \/ CmdRev
    \/ CmdHead
    \/ CmdChown
    \/ CmdUnknown

Next ==
    \/ \E cmd \in Commands : \E a \in ArgLists(cmd) : Dispatch(cmd, a)
    \/ RunCmd
    \/ PrintOut
    \/ EndScript
    \/ EndInput

Spec == Init /\ [][Next]_vars


-----------------------------------------------------------------------------
(* resolve_path alone: one evaluation on drawn inputs *)

Names == {<<"a">>, <<"b">>, <<"c">>}
Cwds(n) == UNION {[1..k -> Names] : k \in 0..n}

\* the path expressions the specification's examples use
ExamplePaths ==
    {<<"/", "a", "/", ".", "/", "b", "/", ".", ".", "/", "c">>,
     <<"/", ".", ".", "/", ".", ".", "/", "a">>,
     <<"c", "/", ".", ".", "/", "a">>}

ResolvePaths == Paths(MaxResolveSegs) \cup ExamplePaths

InitResolve ==
    /\ vfs \in Trees
    /\ cwd_parts \in Cwds(MaxCwd)
    /\ args \in {<<p>> : p \in ResolvePaths}
    /\ rp \in {[done |-> FALSE, cwd2 |-> c] : c \in Cwds(MaxCwd)}
    /\ pc = "resolve"
    /\ log_path = FALSE
    /\ log = <<>>
    /\ command = ""
    /\ out = <<>>
    /\ source = "repl"

\* resolve_path is called on the path, once from each working directory
ApplyResolve ==
    /\ pc = "resolve"
    /\ rp' = [done |-> TRUE, cwd2 |-> rp.cwd2,
              r1 |-> ResolvePath(vfs, cwd_parts, args[1]),
              r2 |-> ResolvePath(vfs, rp.cwd2, args[1])]
    /\ pc' = "resolved"
    /\ UNCHANGED <<vfs, cwd_parts, log_path, log, command, args, out, source>>

NextResolve == ApplyResolve

SpecResolve == InitResolve /\ [][NextResolve]_vars

-----------------------------------------------------------------------------
(* The session with a log file configured *)

AuditInputs ==
    {<<"ls", <<>>>>, <<"cd", <<<<"a">>>>>>, <<"cd", <<<<"c">>>>>>,
     <<"whoami", <<>>>>, <<"rev", <<<<"h", "i">>, <<"a">>>>>>,
     <<"head", <<<<"b">>>>>>, <<"chown", <<NewOwner, <<"a">>>>>>,
     <<"foo", <<<<"a">>>>>>, <<"exit", <<>>>>}

InitAudit ==
    /\ vfs = MainTree
    /\ cwd_parts = <<>>
    /\ log_path = TRUE
    /\ log = <<>>
    /\ pc = "ready"
    /\ command = ""
    /\ args = <<>>
    /\ out = <<>>
    /\ source \in {"script", "repl"}
    /\ rp = NoRp

NextAudit ==
    \/ \E i \in AuditInputs : Len(log) < MaxLog /\ Dispatch(i[1], i[2])
    \/ RunCmd
    \/ PrintOut
    \/ EndScript
    \/ EndInput

SpecAudit == InitAudit /\ [][NextAudit]_vars


-----------------------------------------------------------------------------
(* Notions the properties are stated with *)

\* the steps of a session: run_cmd is entered, and a command's body runs
Dispatching == pc = "ready" /\ pc' = "exec"
Running(cmd) == pc = "exec" /\ command = cmd

\* the normalized absolute form of an absolute path expression
NormalForm(path) == <<"/">> \o Join(<<"/">>, Normalize(SplitPath(path), <<>>))

\* the segments left when the ".." segments that lead a sequence are dropped
RECURSIVE DropLeadingUp(_)
DropLeadingUp(segs) ==
    IF segs # <<>> /\ Head(segs) = <<".", ".">> THEN DropLeadingUp(Tail(segs)) ELSE segs

\* the directory that holds node n, and the absolute path expression of a node
ParentOf(root, n) ==
    CHOOSE d \in DOMAIN root : \E i \in 1..Len(root[d].children) : root[d].children[i] = n
RECURSIVE SegsOf(_, _)
SegsOf(root, n) == IF n = 1 THEN <<>> ELSE Append(SegsOf(root, ParentOf(root, n)), root[n].name)
AbsPathOf(root, n) == <<"/">> \o Join(<<"/">>, SegsOf(root, n))

\* the line an ls listing shows for node n when its owner is owner
ShownLine(root, n, owner) ==
    root[n].name \o <<"\t", root[n].type, "\t", "owner:">> \o owner \o <<"\t", "size:">>
        \o (IF root[n].type = "file" THEN ToDec(Len(root[n].content)) ELSE <<"-">>)

\* the lines of an ls listing
ListingLines(text) == SplitOn(text, "\n", <<>>)

\* the first k lines of a text, joined as head returns them
FirstLines(text, k) == Join(<<"\n">>, SubSeq(SplitLines(text), 1, k))

-----------------------------------------------------------------------------
(* Properties *)

\* C1: in every reachable state of a session the working directory, walked
\* from the root, reaches an existing directory: resolving "" never gives the
\* 'current directory broken' error.
C1_CwdResolves ==
    LET r == ResolvePath(vfs, cwd_parts, <<>>)
    IN  r.node # NoNode /\ vfs[r.node].type = "dir"

\* C2: with the root as working directory, an absolute path expression
\* resolves to the same node as its normalized form ("/a/./b/../c" as "/a/c").
C2_NormalizationLaw ==
    (pc = "resolved" /\ cwd_parts = <<>> /\ StartsWithSlash(args[1]))
        => rp.r1.node = ResolvePath(vfs, <<>>, NormalForm(args[1])).node

\* C3: with the root as working directory, the ".." segments that lead a path
\* expression are absorbed: the expression resolves to the same node as the
\* expression without them ("/../../a" as "/a"), never to an error of its own.
C3_UpAboveRootAbsorbed ==
    (pc = "resolved" /\ cwd_parts = <<>>)
        => rp.r1.node =
              ResolvePath(vfs, <<>>,
                          (IF StartsWithSlash(args[1]) THEN <<"/">> ELSE <<>>)
                              \o Join(<<"/">>, DropLeadingUp(SplitPath(args[1])))).node

\* C4: cd with more than one argument returns an error text and leaves the
\* working directory unchanged.
C4_CdUsageError ==
    [][(Running("cd") /\ Len(args) > 1) => (cwd_parts' = cwd_parts /\ out' # <<>>)]_vars

\* C5: a cd whose single argument does not resolve, or resolves to a file,
\* returns an error text and leaves the working directory unchanged.
C5_FailingCdKeepsCwd ==
    [][(/\ Running("cd")
        /\ Len(args) = 1
        /\ LET r == ResolvePath(vfs, cwd_parts, args[1])
           IN  r.node = NoNode \/ vfs[r.node].type = "file")
       => (/\ cwd_parts' = cwd_parts
           /\ out' # <<>>
           /\ Head(out') \in {"cd: ", "cd: not a directory: "})]_vars

\* C5 witness: from a working directory other than the root, cd to a file has
\* returned its error.
C5_Witness ==
    /\ pc = "returned" /\ command = "cd" /\ Len(args) = 1
    /\ cwd_parts # <<>>
    /\ out # <<>> /\ Head(out) = "cd: not a directory: "

\* C6: after a successful cd p, resolving "." from the new working directory
\* gives the node that p resolved to from the old one.
C6_IdempotentReentry ==
    [][(Running("cd") /\ Len(args) = 1 /\ out' = <<>>)
       => ResolvePath(vfs, cwd_parts', <<".">>).node
              = ResolvePath(vfs, cwd_parts, args[1]).node]_vars

\* C7: a successful chown sets the owner of the node its path resolves to,
\* the listing of that node's directory shows the new owner, and the owner of
\* every other node is unchanged.
C7_ChownSetsOneOwner ==
    [][(/\ Running("chown")
        /\ Len(args) >= 2
        /\ ResolvePath(vfs, cwd_parts, args[2]).node # NoNode)
       => LET n == ResolvePath(vfs, cwd_parts, args[2]).node
          IN  /\ out' = <<>>
              /\ DOMAIN vfs' = DOMAIN vfs
              /\ vfs'[n].owner = args[1]
              /\ \A m \in DOMAIN vfs \ {n} : vfs'[m].owner = vfs[m].owner
              /\ n # 1 =>
                    \E i \in DOMAIN ListingLines(
                                LsOutput(vfs', <<>>, <<AbsPathOf(vfs, ParentOf(vfs, n))>>)) :
                        ListingLines(
                            LsOutput(vfs', <<>>, <<AbsPathOf(vfs, ParentOf(vfs, n))>>))[i]
                            = ShownLine(vfs, n, args[1])]_vars

\* C7 witness: chown has changed the owner of /a/b and returned.
C7_Witness ==
    /\ pc = "returned" /\ command = "chown" /\ Len(args) = 2 /\ out = <<>>
    /\ 3 \in DOMAIN vfs
    /\ vfs[3].owner = NewOwner
    /\ vfs[2].owner = RootOwner

\* C8: an absolute path expression resolves to the same node, or fails with
\* the same error, from any two working directories.
C8_AbsoluteIgnoresCwd ==
    (pc = "resolved" /\ StartsWithSlash(args[1])) => rp.r1 = rp.r2

\* C8 witness: an absolute path was resolved to a node below the root from two
\* different working directories.
C8_Witness ==
    /\ pc = "resolved" /\ StartsWithSlash(args[1])
    /\ cwd_parts # rp.cwd2
    /\ rp.r1.node \notin {NoNode, 1}

\* C9 as claimed: every dispatch appends exactly one event, with the command's
\* name and arguments, before the command changes anything; no other step
\* touches the log.
C9_ExactlyOneEvent ==
    [][/\ Dispatching =>
            /\ log' = Append(log, LogEvent(User, command', args'))
            /\ vfs' = vfs /\ cwd_parts' = cwd_parts
       /\ ~Dispatching => log' = log]_vars

\* C9 as amended: every dispatch appends its event, or nothing when reading or
\* writing the log file fails, before the command changes anything; no other
\* step touches the log, so the log holds at most one event per dispatch, in
\* dispatch order.
C9_AtMostOneEvent ==
    [][/\ Dispatching =>
            /\ log' \in {log, Append(log, LogEvent(User, command', args'))}
            /\ vfs' = vfs /\ cwd_parts' = cwd_parts
       /\ ~Dispatching => log' = log]_vars

\* C9 witness: a second event is in the log, that of an unknown command whose
\* body has not yet run.
C9_Witness ==
    /\ pc = "exec" /\ command = "foo"
    /\ Len(log) >= 2
    /\ log[Len(log)] = LogEvent(User, command, args)

\* C10: head on a file of L lines returns its first max(0, min(N, L)) lines,
\* N being the integer given with -n, or 10 without -n.
C10_HeadFirstN ==
    (/\ pc = "returned" /\ command = "head" /\ args # <<>>
     /\ (args[1] = <<"-", "n">> => Len(args) >= 3 /\ ParseInt(args[2]).ok))
    => LET n == IF args[1] = <<"-", "n">> THEN ParseInt(args[2]).val ELSE HeadDefault
           r == ResolvePath(vfs, cwd_parts, IF args[1] = <<"-", "n">> THEN args[3] ELSE args[1])
       IN  (r.node # NoNode /\ vfs[r.node].type = "file")
           => out = FirstLines(vfs[r.node].content,
                               Max(0, Min(n, Len(SplitLines(vfs[r.node].content)))))


\* text a is text b with the order of its characters reversed
IsReverseOf(a, b) == Len(a) = Len(b) /\ \A i \in 1..Len(b) : a[i] = b[Len(b) + 1 - i]

\* C11: rev's result is decided by how its first argument resolves: a file
\* gives the file's text reversed, a directory gives the directory error and
\* no reversed text, an argument that does not resolve gives all arguments
\* joined by single spaces, reversed.
C11_RevByResolution ==
    (pc = "returned" /\ command = "rev" /\ args # <<>>)
    => LET r == ResolvePath(vfs, cwd_parts, args[1])
       IN  /\ (r.node # NoNode /\ vfs[r.node].type = "file")
                => IsReverseOf(out, vfs[r.node].content)
           /\ (r.node # NoNode /\ vfs[r.node].type = "dir")
                => out = <<"rev: ">> \o args[1] \o <<" is a directory">>
           /\ r.node = NoNode
                => IsReverseOf(out, Join(<<" ">>, args))

\* C11 witness: rev has returned for two arguments, the first of which does
\* not resolve.
C11_Witness ==
    /\ pc = "returned" /\ command = "rev" /\ Len(args) = 2
    /\ ResolvePath(vfs, cwd_parts, args[1]).node = NoNode
    /\ Len(out) = Len(args[1]) + 1 + Len(args[2])


\* the lines of an ls listing, none for the empty listing
LinesOf(text) == IF text = <<>> THEN <<>> ELSE ListingLines(text)

\* the name a listing line starts with
NameOfLine(line) == SplitOn(line, "\t", <<>>)[1]

\* C12: ls on a directory returns one line per child, in ascending order of
\* the children's names, whatever the order the children were inserted in.
C12_LsSorted ==
    (pc = "returned" /\ command = "ls")
    => LET r == ResolvePath(vfs, cwd_parts, IF args # <<>> THEN args[1] ELSE <<>>)
           lines == LinesOf(out)
       IN  (r.node # NoNode /\ vfs[r.node].type = "dir")
           => /\ Len(lines) = Len(vfs[r.node].children)
              /\ {NameOfLine(lines[i]) : i \in 1..Len(lines)}
                    = {vfs[vfs[r.node].children[i]].name : i \in 1..Len(vfs[r.node].children)}
              /\ \A i \in 1..Len(lines) - 1 :
                    TextLess(NameOfLine(lines[i]), NameOfLine(lines[i + 1]))

\* C12 witness: ls has listed a directory whose two children were inserted
\* in descending order of name.
C12_Witness ==
    /\ pc = "returned" /\ command = "ls" /\ args # <<>>
    /\ LET r == ResolvePath(vfs, cwd_parts, args[1])
       IN  /\ r.node # NoNode /\ vfs[r.node].type = "dir"
           /\ Len(vfs[r.node].children) = 2
           /\ TextLess(vfs[vfs[r.node].children[2]].name, vfs[vfs[r.node].children[1]].name)
    /\ Len(LinesOf(out)) = 2


\* C13: run_cmd never fails: every step that runs the body of a command other
\* than exit, with any arguments and in every reachable state, hands a text
\* back to the caller (an unknown command its message) and leaves the session
\* running, and the caller's next step makes the session ready for the next
\* line.
C13_DispatchNeverFails ==
    [][/\ (pc = "exec" /\ command # "exit")
            => /\ pc' = "returned"
               /\ out' \in Seq(STRING)
               /\ command \notin Known => out' = <<"Unknown command: ", command>>
       /\ pc = "returned" => pc' = "ready"]_vars

\* C13 witness: an unknown command has returned its message.
C13_Witness ==
    /\ pc = "returned" /\ command = "foo"
    /\ out = <<"Unknown command: ", "foo">>

\* the segments a path expression is walked through from the root, for an
\* expression made of names only
PlainPath(path) == \A i \in 1..Len(SplitPath(path)) : SplitPath(path)[i] \in Names
WalkedSegs(cwd, path) == IF StartsWithSlash(path) THEN SplitPath(path) ELSE cwd \o SplitPath(path)

\* walking rest from cur comes to a file while segments are still left
RECURSIVE DescendsThroughFile(_, _, _)
DescendsThroughFile(root, cur, rest) ==
    IF rest = <<>> THEN FALSE
    ELSE IF root[cur].type = "file" THEN TRUE
    ELSE IF ~HasChild(root, cur, Head(rest)) THEN FALSE
    ELSE DescendsThroughFile(root, Child(root, cur, Head(rest)), Tail(rest))

\* C14: for a path expression made of names, the resolver tells its two
\* traversal failures apart: a segment absent from a directory is reported as
\* not found, a file met while segments are still left is reported by an error
\* of another kind, and a file met as the last segment is the result.
C14_TraversalFailures ==
    (pc = "resolved" /\ PlainPath(args[1]))
        => LET segs == WalkedSegs(cwd_parts, args[1])
               t == WalkStack(vfs, 1, segs, segs).node
           IN  /\ DescendsThroughFile(vfs, 1, segs)
                     => (rp.r1.node = NoNode /\ Head(rp.r1.err) # "path not found: ")
               /\ (t = NoNode /\ ~DescendsThroughFile(vfs, 1, segs))
                     => (rp.r1.node = NoNode /\ Head(rp.r1.err) = "path not found: ")
               /\ (t # NoNode /\ vfs[t].type = "file")
                     => (rp.r1.node = t /\ rp.r1.err = NoErr)

\* C15: a relative path expression resolves to the node that the traversal of
\* normalize(cwd ++ segments) from the root comes to; a segment that a later
\* ".." cancels ("c/../a" where c does not exist) is never looked up.
C15_NormalizeThenTraverse ==
    (pc = "resolved" /\ ~StartsWithSlash(args[1]))
        => LET stack == Normalize(cwd_parts \o SplitPath(args[1]), <<>>)
           IN  rp.r1.node = WalkStack(vfs, 1, stack, stack).node

\* C16 as claimed: the dispatch of exit appends exit's event to the log, the
\* exit step ends the session leaving tree, working directory and log as they
\* are, and no step follows the end of the session, whether the line came from
\* the start script or from the prompt.
C16_ExitLoggedThenEnds ==
    [][/\ (Dispatching /\ command' = "exit")
            => log' = Append(log, LogEvent(User, "exit", args'))
       /\ Running("exit")
            => (pc' = "exited" /\ vfs' = vfs /\ cwd_parts' = cwd_parts /\ log' = log)
       /\ pc # "exited"]_vars

\* C16 as amended: the dispatch of exit appends exit's event, or nothing when
\* reading or writing the log file fails; the exit step ends the session
\* leaving tree, working directory and log as they are, and no step follows
\* the end of the session.
C16_ExitEndsSession ==
    [][/\ (Dispatching /\ command' = "exit")
            => log' \in {log, Append(log, LogEvent(User, "exit", args'))}
       /\ Running("exit")
            => (pc' = "exited" /\ vfs' = vfs /\ cwd_parts' = cwd_parts /\ log' = log)
       /\ pc # "exited"]_vars

\* C16 witness: an exit read from the start script has ended the session after
\* a cd; its event is the last of the log.
C16_Witness ==
    /\ pc = "exited" /\ command = "exit" /\ source = "script"
    /\ cwd_parts = <<<<"a">>>>
    /\ Len(log) = 2
    /\ log[2] = LogEvent(User, "exit", <<>>)

\* C17: no step changes the tree's structure: the set of nodes, and each
\* node's name, type, mode, content and children, are after every step what
\* they were before it, so they stay what they were at startup; the owner is
\* the only field of a node that a step can change.
C17_StructureFixed ==
    [][/\ DOMAIN vfs' = DOMAIN vfs
       /\ \A n \in DOMAIN vfs :
             /\ vfs'[n].name = vfs[n].name
             /\ vfs'[n].type = vfs[n].type
             /\ vfs'[n].mode = vfs[n].mode
             /\ vfs'[n].content = vfs[n].content
             /\ vfs'[n].children = vfs[n].children]_vars

\* C17 witness: after a cd and a chown the tree differs from the startup tree,
\* and in the owner of the file /a/c only.
C17_Witness ==
    /\ pc = "returned" /\ command = "chown"
    /\ cwd_parts = <<<<"a">>>>
    /\ vfs # MainTree
    /\ vfs = [MainTree EXCEPT ![4].owner = NewOwner]

\* the owner of every node is the same in both trees
SameOwners(t1, t2) == DOMAIN t1 = DOMAIN t2 /\ \A n \in DOMAIN t1 : t1[n].owner = t2[n].owner

\* C18: a step of ls, whoami, rev, head or an unknown command, with any
\* arguments, and a step of a chown with fewer than two arguments or with a
\* path that does not resolve, leaves the working directory and the owner of
\* every node unchanged.
C18_ReadOnlyKeepsState ==
    [][(/\ pc = "exec"
        /\ \/ command \in {"ls", "whoami", "rev", "head"}
           \/ command \notin Known
           \/ /\ command = "chown"
              /\ \/ Len(args) < 2
                 \/ ResolvePath(vfs, cwd_parts, args[2]).node = NoNode)
       => (cwd_parts' = cwd_parts /\ SameOwners(vfs', vfs))]_vars

\* C18 witness: in a session that has changed directory and an owner, a chown
\* on a path that does not resolve has returned its error.
C18_Witness ==
    /\ pc = "returned" /\ command = "chown" /\ Len(args) = 2
    /\ out # <<>> /\ Head(out) = "chown: "
    /\ cwd_parts = <<<<"a">>>>
    /\ vfs = [MainTree EXCEPT ![3].owner = NewOwner]

=============================================================================
